---- MODULE Spec2Model ----
(***************************************************************************)
(* Model of the AWS Config rule IAM_ROLE_NOT_USED                          *)
(* (src/IAM_ROLE_NOT_USED/IAM_ROLE_NOT_USED.py).                            *)
(*                                                                         *)
(* Two specifications over one set of variables:                           *)
(*   SpecParams  the Parameter Validator, evaluate_parameters, applied to  *)
(*               a raw parameter mapping and then again to what it         *)
(*               returned;                                                 *)
(*   Spec        the Compliance Evaluator, evaluate_periodic, run against  *)
(*               a paginated role listing while the wall clock advances.   *)
(*                                                                         *)
(* Python strings are sequences of one-character strings.  Python values   *)
(* that can be None, a str or an int are records tagged by field t.        *)
(* Instants are integers counted in ticks; one day is TicksPerDay ticks.   *)
(***************************************************************************)
EXTENDS Integers, Sequences, FiniteSets, TLC

\* ------------------------------------------------------------------ bounds
\* longest raw parameter string drawn as input
MaxLen == 3
\* largest N whose decimal form str(N) is looked at
MaxN == 120
\* number of evaluate_parameters calls made on one mapping
MaxCalls == 2
\* last instant (in ticks) of the clock and of the role timestamps
MaxTime == 2
\* resolution of the clock: ticks in one day
TicksPerDay == 2
\* largest validated threshold handed to evaluate_periodic
MaxDays == 1
\* largest number of pages the paginator holds
MaxPages == 2

\* ------------------------------------------------------- program constants
DEFAULT_DAYS == 90
APPLICABLE_RESOURCES == <<"AWS::IAM::Role">>
COMPLIANT == "COMPLIANT"
NON_COMPLIANT == "NON_COMPLIANT"
MSG_NOT_INTEGER == "The parameter \"DaysBeforeUnused\" must be a integer"
MSG_NEGATIVE == "The parameter \"DaysBeforeUnused\" must be greater than or equal to 0"

\* ---------------------------------------------------------- Python values
None == [t |-> "none", s |-> <<>>, n |-> 0]
StrVal(s) == [t |-> "str", s |-> s, n |-> 0]
IntVal(n) == [t |-> "int", s |-> <<>>, n |-> n]

Digits == <<"0", "1", "2", "3", "4", "5", "6", "7", "8", "9">>
DigitSet == {Digits[i] : i \in 1..10}
\* characters of the raw strings: the digits, both signs, a blank, the digit
\* separator int() accepts, and a letter
Alphabet == DigitSet \cup {"-", "+", " ", "_", "a"}

IsDigit(c) == c \in DigitSet
DigitVal(c) == (CHOOSE i \in 1..10 : Digits[i] = c) - 1

\* str(n) for an int n: decimal digits, most significant first, "-" in front
\* of a negative number
RECURSIVE StrNat(_)
StrNat(n) == IF n < 10 THEN <<Digits[n + 1]>>
             ELSE Append(StrNat(n \div 10), Digits[(n % 10) + 1])
Str(n) == IF n < 0 THEN <<"-">> \o StrNat(0 - n) ELSE StrNat(n)

\* str.strip() as int() applies it to its argument
RECURSIVE LStrip(_)
LStrip(s) == IF s # <<>> /\ Head(s) = " " THEN LStrip(Tail(s)) ELSE s
RECURSIVE RStrip(_)
RStrip(s) == IF s # <<>> /\ s[Len(s)] = " " THEN RStrip(SubSeq(s, 1, Len(s) - 1))
             ELSE s
Strip(s) == RStrip(LStrip(s))

\* the digit part of an int() literal: at least one digit, "_" only between
\* two digits
ValidDigits(s) ==
    /\ s # <<>>
    /\ \A i \in 1..Len(s) :
          \/ IsDigit(s[i])
          \/ /\ s[i] = "_"
             /\ 1 < i /\ i < Len(s)
             /\ IsDigit(s[i - 1]) /\ IsDigit(s[i + 1])

RECURSIVE DigitsValue(_, _)
DigitsValue(s, acc) ==
    IF s = <<>> THEN acc
    ELSE IF Head(s) = "_" THEN DigitsValue(Tail(s), acc)
    ELSE DigitsValue(Tail(s), 10 * acc + DigitVal(Head(s)))

\* int(str): [ok |-> FALSE] stands for ValueError
IntOfStr(s) ==
    LET b == Strip(s)
        signed == b # <<>> /\ Head(b) \in {"-", "+"}
        body == IF signed THEN Tail(b) ELSE b
        mag == DigitsValue(body, 0)
    IN  IF ValidDigits(body)
        THEN [ok |-> TRUE,
              n |-> IF signed /\ Head(b) = "-" THEN 0 - mag ELSE mag]
        ELSE [ok |-> FALSE, n |-> 0]

\* int(v) for the values a parameter mapping holds
IntOf(v) == IF v.t = "int" THEN [ok |-> TRUE, n |-> v.n] ELSE IntOfStr(v.s)

\* "not v": None, the empty string and the integer 0 are falsy
Not(v) ==
    \/ v.t = "none"
    \/ v.t = "str" /\ v.s = <<>>
    \/ v.t = "int" /\ v.n = 0

\* ------------------------------------------------ the parameter mapping
\* A mapping is a function on the one recognised key; None under the key
\* stands for the key being absent (dict.get returns None for it).
KEY == "DaysBeforeUnused"
Get(d, k) == d[k]
Put(d, k, v) == [d EXCEPT ![k] = v]

RECURSIVE StringsOfLen(_)
StringsOfLen(n) ==
    IF n = 0 THEN {<<>>}
    ELSE {Append(s, c) : s \in StringsOfLen(n - 1), c \in Alphabet}
RawStrings == UNION {StringsOfLen(n) : n \in 0..MaxLen}
              \cup {Str(n) : n \in 0..MaxN}
RawParameters == {[k \in {KEY} |-> v] : v \in {None} \cup {StrVal(s) : s \in RawStrings}}

\* ------------------------------------------------------- the role listing
RoleNames == {"config-rule", "AWS-CodePipeline-Service"}
Times == 0..MaxTime

\* RoleLastUsed of a role record: the key missing (dict.get gives None), an
\* empty dict (a role never used), or a dict holding LastUsedDate
NoLastUsed == [t |-> "none", LastUsedDate |-> 0]
EmptyLastUsed == [t |-> "empty", LastUsedDate |-> 0]
LastUsed(d) == [t |-> "dict", LastUsedDate |-> d]
\* truth value of RoleLastUsed: None and {} are falsy
Truthy(last_used) == last_used.t = "dict"

\* role records of list_roles; a role is not used before it is created
RoleRecords ==
    {[RoleName |-> nm, CreateDate |-> c, RoleLastUsed |-> u] :
        nm \in RoleNames, c \in Times,
        u \in {NoLastUsed, EmptyLastUsed} \cup {LastUsed(d) : d \in Times}}
Roles == {r \in RoleRecords :
             Truthy(r.RoleLastUsed) => r.RoleLastUsed.LastUsedDate >= r.CreateDate}

\* role names are unique in an account: a listing holds each name once
RECURSIVE RoleSeqs(_)
RoleSeqs(n) ==
    IF n = 0 THEN {<<>>}
    ELSE {Append(rs, r) : rs \in RoleSeqs(n - 1), r \in Roles}
DistinctNames(rs) == \A i, j \in 1..Len(rs) : rs[i].RoleName = rs[j].RoleName => i = j
RoleLists == {rs \in UNION {RoleSeqs(n) : n \in 1..Cardinality(RoleNames)} :
                 DistinctNames(rs)}

\* the ways list_roles cuts the roles rs into k pages, none of them empty
RECURSIVE Splits(_, _)
Splits(rs, k) ==
    IF k = 0 THEN (IF rs = <<>> THEN {<<>>} ELSE {})
    ELSE UNION {{<<SubSeq(rs, 1, i)>> \o rest :
                    rest \in Splits(SubSeq(rs, i + 1, Len(rs)), k - 1)} :
                i \in 1..Len(rs)}

\* what paginate() yields: at most MaxPages pages of role records; for an
\* account without roles no page, or one page without roles
Listings ==
    {<<>>, <<<<>>>>} \cup UNION {Splits(rs, k) : rs \in RoleLists, k \in 1..MaxPages}

\* errors the paginator can raise while paging
UpstreamErrors == {"ClientError", "EndpointConnectionError"}

\* validated parameter mappings handed to evaluate_periodic
ValidParameters == {[k \in {KEY} |-> IntVal(n)] : n \in 0..MaxDays}

VARIABLES
    rule_parameters,  \* the caller's mapping object evaluate_parameters works on
    params_before,    \* that mapping as it was when the latest call started
    params_outcome,   \* "none", "returned" or "raised" (InvalidParametersError)
    params_message,   \* the message of the raised InvalidParametersError
    calls,            \* evaluate_parameters calls made so far
    outcome_before,   \* params_outcome as it was when the latest call started
    clock,            \* the wall clock, datetime.now(timezone.utc), in ticks
    CURRENT_TIME,     \* the module global, read from the clock at module load
    paginate,         \* the pages paginate() yields when it does not fail
    valid_rule_parameters, \* argument of the latest evaluate_periodic run
    fail_at,          \* page whose fetch failed in the latest run, 0 for none
    upstream_error,   \* the error the paginator raised in the latest run
    periodic_outcome, \* "none", "returned" or "raised"
    periodic_error,   \* the error the caller of evaluate_periodic caught
    response,         \* the list evaluate_periodic returned
    readings,         \* per evaluated role, the instant it was aged against
    run_clock         \* the wall clock during the latest run

pvars == <<rule_parameters, params_before, params_outcome, params_message, calls,
           outcome_before>>
evars == <<clock, CURRENT_TIME, paginate, valid_rule_parameters, fail_at,
           upstream_error, periodic_outcome, periodic_error, response, readings,
           run_clock>>
vars == <<pvars, evars>>

\* a truth test that takes the string "0" for an unset value as well
NotOrZeroString(v) ==
    \/ v.t = "none"
    \/ v.t = "str" /\ v.s \in {<<>>, <<"0">>}
    \/ v.t = "int" /\ v.n = 0

\* a test for the absent key only
NotIsNone(v) == v.t = "none"

\* line 84: not rule_parameters.get('DaysBeforeUnused')
Unset(v) == Not(v)

\* evaluate_parameters, lines 84-85: the default replaces a falsy value
SubstituteDefault(d) ==
    IF Unset(Get(d, KEY)) THEN Put(d, KEY, IntVal(DEFAULT_DAYS)) ELSE d

\* a bound check that rejects 0 as well
NegativeOrZero(n) == n <= 0

\* line 94: rule_parameters['DaysBeforeUnused'] < 0
Negative(n) == n < 0

\* evaluate_parameters as a function of the mapping: the outcome, the message
\* and the mapping as the call leaves it
EvaluateParametersResult(d) ==
    LET d1 == SubstituteDefault(d)
        parsed == IntOf(Get(d1, KEY))
        d2 == Put(d1, KEY, IntVal(parsed.n))
    IN  IF ~parsed.ok
        THEN [outcome |-> "raised", message |-> MSG_NOT_INTEGER, mapping |-> d1]
        ELSE IF Negative(parsed.n)
        THEN [outcome |-> "raised", message |-> MSG_NEGATIVE, mapping |-> d2]
        ELSE [outcome |-> "returned", message |-> "", mapping |-> d2]

EvaluateParameters ==
    /\ calls < MaxCalls
    /\ LET r == EvaluateParametersResult(rule_parameters)
       IN  /\ rule_parameters' = r.mapping
           /\ params_outcome' = r.outcome
           /\ params_message' = r.message
    /\ params_before' = rule_parameters
    /\ outcome_before' = params_outcome
    /\ calls' = calls + 1
    /\ UNCHANGED evars

\* the evaluator before any run, the module loaded at instant 0
EvaluatorIdle(pages) ==
    /\ paginate = pages
    /\ valid_rule_parameters = [k \in {KEY} |-> IntVal(DEFAULT_DAYS)]
    /\ fail_at = 0
    /\ upstream_error = ""
    /\ periodic_outcome = "none"
    /\ periodic_error = ""
    /\ response = <<>>
    /\ readings = <<>>
    /\ run_clock = clock

\* the validator before any call, on the mapping d
ValidatorIdle(d) ==
    /\ rule_parameters = d
    /\ params_before = d
    /\ params_outcome = "none"
    /\ params_message = ""
    /\ calls = 0
    /\ outcome_before = "none"

InitParams ==
    /\ \E d \in RawParameters : ValidatorIdle(d)
    /\ clock = 0
    /\ CURRENT_TIME = clock
    /\ EvaluatorIdle(<<>>)

NextParams == EvaluateParameters

SpecParams == InitParams /\ [][NextParams]_vars

\* ------------------------------------------------- the compliance evaluator
\* timedelta.days of a difference of delta ticks: whole days, rounded down
\* (a negative timedelta has negative days)
DaysOf(delta) == delta \div TicksPerDay

\* Evaluation(complianceType, resourceId, resourceType, annotation=None)
NoAnnotation == [some |-> FALSE, text |-> <<>>]
Evaluation(compliance_type, resource_id, resource_type, annotation) ==
    [complianceType |-> compliance_type, resourceId |-> resource_id,
     resourceType |-> resource_type, annotation |-> annotation]

\* "This AWS IAM Role has not been used within the last {} day(s)".format(n)
Annotation(n) ==
    [some |-> TRUE,
     text |-> <<"This AWS IAM Role has not been used within the last ">>
              \o Str(n) \o <<" day(s)">>]

\* get_roles: the pages are fetched in order and their roles collected; a
\* fetch that fails raises the paginator's error out of get_roles, and the
\* roles collected so far are lost with the frame
RECURSIVE GetRolesFrom(_, _, _, _, _)
GetRolesFrom(pages, failing, error, i, roles) ==
    IF i = failing THEN [raised |-> TRUE, error |-> error, roles |-> <<>>]
    ELSE IF i > Len(pages) THEN [raised |-> FALSE, error |-> "", roles |-> roles]
    ELSE GetRolesFrom(pages, failing, error, i + 1, roles \o pages[i])

\* a get_roles that swallows the paginator's error and returns what it has
RECURSIVE GetRolesSwallowing(_, _, _)
GetRolesSwallowing(pages, failing, error) ==
    IF pages = <<>> \/ failing = 1
    THEN [raised |-> FALSE, error |-> "", roles |-> <<>>]
    ELSE LET rest == GetRolesSwallowing(Tail(pages),
                                        IF failing = 0 THEN 0 ELSE failing - 1, error)
         IN  [rest EXCEPT !.roles = Head(pages) \o rest.roles]

\* a get_roles that keeps the roles of the latest page only (= for extend)
GetRolesLastPage(pages, failing, error) ==
    IF failing # 0 THEN [raised |-> TRUE, error |-> error, roles |-> <<>>]
    ELSE [raised |-> FALSE, error |-> "",
          roles |-> IF pages = <<>> THEN <<>> ELSE pages[Len(pages)]]

GetRoles(pages, failing, error) == GetRolesFrom(pages, failing, error, 1, <<>>)

\* a reference instant that ignores RoleLastUsed
CreateDateOnly(role_data) == role_data.CreateDate

\* lines 66-71: the instant a role's age is measured from
ReferenceInstant(role_data) ==
    LET last_used == role_data.RoleLastUsed
    IN  IF Truthy(last_used) THEN last_used.LastUsedDate
        ELSE role_data.CreateDate

\* lines 68 and 71: the age in days against the module global
Diff(role_data) == DaysOf(CURRENT_TIME - ReferenceInstant(role_data))

\* a strict comparison
StrictlyWithinDays(diff, days_before_unused) == diff < days_before_unused

\* line 74
WithinDays(diff, days_before_unused) == diff <= days_before_unused

\* lines 65-79: the evaluation of one role
EvaluateRole(role_data, parameters) ==
    LET role_name == role_data.RoleName
        diff == Diff(role_data)
        days_before_unused == Get(parameters, KEY).n
    IN  IF WithinDays(diff, days_before_unused)
        THEN Evaluation(COMPLIANT, role_name, APPLICABLE_RESOURCES[1], NoAnnotation)
        ELSE Evaluation(NON_COMPLIANT, role_name, APPLICABLE_RESOURCES[1],
                        Annotation(days_before_unused))

\* lines 62-80: evaluations.append, role by role
RECURSIVE EvaluateRoles(_, _, _)
EvaluateRoles(roles, parameters, evaluations) ==
    IF roles = <<>> THEN evaluations
    ELSE EvaluateRoles(Tail(roles), parameters,
                       Append(evaluations, EvaluateRole(Head(roles), parameters)))

\* one run of evaluate_periodic with the validated parameters, the paginator
\* failing at page failing (0: not at all) with error.  The pacing sleep of
\* get_roles is far below one tick and leaves the clock where it is.
EvaluatePeriodic(parameters, failing, error) ==
    LET got == GetRoles(paginate, failing, error)
    IN  /\ valid_rule_parameters' = parameters
        /\ fail_at' = failing
        /\ upstream_error' = error
        /\ run_clock' = clock
        /\ IF got.raised
           THEN /\ periodic_outcome' = "raised"
                /\ periodic_error' = got.error
                /\ response' = <<>>
                /\ readings' = <<>>
           ELSE /\ periodic_outcome' = "returned"
                /\ periodic_error' = ""
                /\ response' = EvaluateRoles(got.roles, parameters, <<>>)
                /\ readings' = [i \in 1..Len(got.roles) |-> CURRENT_TIME]
        /\ UNCHANGED <<clock, CURRENT_TIME, paginate, pvars>>

\* the wall clock advances while the module stays loaded
Tick ==
    /\ clock < MaxTime
    /\ clock' = clock + 1
    /\ UNCHANGED <<CURRENT_TIME, paginate, valid_rule_parameters, fail_at,
                   upstream_error, periodic_outcome, periodic_error, response,
                   readings, run_clock, pvars>>

RunSucceeds ==
    \E parameters \in ValidParameters : EvaluatePeriodic(parameters, 0, "")

RunFails ==
    \E parameters \in ValidParameters, failing \in 1..Len(paginate),
       error \in UpstreamErrors :
        EvaluatePeriodic(parameters, failing, error)

\* the module is loaded at some instant (CURRENT_TIME is read then) in an
\* account whose role listing is some listing
Init ==
    /\ clock \in Times
    /\ CURRENT_TIME = clock
    /\ \E pages \in Listings : EvaluatorIdle(pages)
    /\ ValidatorIdle([k \in {KEY} |-> None])

Next == Tick \/ RunSucceeds \/ RunFails

Spec == Init /\ [][Next]_vars

\* ================================================================ claims
\* the role records of the listing in page order, and their number
RECURSIVE RoleCount(_)
RoleCount(pages) == IF pages = <<>> THEN 0 ELSE Len(Head(pages)) + RoleCount(Tail(pages))
RECURSIVE NthRecord(_, _)
NthRecord(pages, i) ==
    IF i <= Len(Head(pages)) THEN Head(pages)[i]
    ELSE NthRecord(Tail(pages), i - Len(Head(pages)))

Threshold == valid_rule_parameters[KEY].n
Returned == periodic_outcome = "returned"

\* the age in whole days at instant now of something that happened at ref
\* does not exceed n days: less than n + 1 days have passed
AgeAtMost(now, ref, n) == now - ref < (n + 1) * TicksPerDay
\* the age in whole days is exactly n
AgeIs(now, ref, n) == AgeAtMost(now, ref, n) /\ ~AgeAtMost(now, ref, n - 1)

\* the text of the annotation that names n days
AnnotationText(n) ==
    <<"This AWS IAM Role has not been used within the last ">> \o Str(n)
    \o <<" day(s)">>

\* C1: every role whose age in whole days, against the instant the evaluator
\* ages it by, is at most the threshold T (age = T included) is reported
\* COMPLIANT without annotation; every other role is reported NON_COMPLIANT
\* with the annotation naming T, not its age.
C1_Classification ==
    Returned =>
        \A i \in 1..Len(response) :
            LET role == NthRecord(paginate, i)
            IN  IF AgeAtMost(CURRENT_TIME, ReferenceInstant(role), Threshold)
                THEN /\ response[i].complianceType = "COMPLIANT"
                     /\ response[i].annotation.some = FALSE
                ELSE /\ response[i].complianceType = "NON_COMPLIANT"
                     /\ response[i].annotation.some = TRUE
                     /\ response[i].annotation.text = AnnotationText(Threshold)

\* a run reported a role of age exactly T COMPLIANT and a role of age T + 1
\* NON_COMPLIANT
C1_Witness ==
    /\ Returned
    /\ \E i, j \in 1..Len(response) :
          /\ AgeIs(CURRENT_TIME, ReferenceInstant(NthRecord(paginate, i)), Threshold)
          /\ response[i].complianceType = "COMPLIANT"
          /\ AgeIs(CURRENT_TIME, ReferenceInstant(NthRecord(paginate, j)), Threshold + 1)
          /\ response[j].complianceType = "NON_COMPLIANT"
          /\ response[j].annotation.text = AnnotationText(Threshold)

\* C2: for every non-negative integer N, 0 included, the first call on the
\* mapping {"DaysBeforeUnused": str(N)} returns with DaysBeforeUnused = N.
C2_DecimalAccepted ==
    \A N \in 0..MaxN :
        (calls = 1 /\ params_before[KEY] = StrVal(Str(N)))
            => /\ params_outcome = "returned"
               /\ rule_parameters[KEY] = IntVal(N)

\* the string "0" was validated and came out as the integer 0
C2_Witness ==
    /\ calls = 1
    /\ params_before[KEY] = StrVal(<<"0">>)
    /\ params_outcome = "returned"
    /\ rule_parameters[KEY] = IntVal(0)

\* C3: every run ages each of its roles against one reading of the clock
\* taken for that run, not against a reading of an earlier run or of module
\* load.
C3_OwnReading ==
    Returned => \A i \in 1..Len(readings) : readings[i] = run_clock

\* C4: when the paginator fails on a page, evaluate_periodic returns no list:
\* the caller gets the paginator's error, unchanged, and no evaluation.
C4_FailurePropagates ==
    (periodic_outcome # "none" /\ fail_at # 0)
        => /\ periodic_outcome = "raised"
           /\ periodic_error = upstream_error
           /\ response = <<>>

\* the second page failed after the first page had yielded a role
C4_Witness ==
    /\ fail_at = 2
    /\ paginate[1] # <<>>
    /\ periodic_outcome = "raised"
    /\ periodic_error \in UpstreamErrors

\* C5: a role is aged from its last-used timestamp when RoleLastUsed holds
\* one, and from its creation timestamp when RoleLastUsed is missing or
\* empty: it is COMPLIANT exactly when that instant is at most T whole days
\* back, so a role never used and created more than T days back is
\* NON_COMPLIANT.
C5_ReferenceInstant ==
    Returned =>
        \A i \in 1..Len(response) :
            LET role == NthRecord(paginate, i)
                from == IF role.RoleLastUsed.t = "dict"
                        THEN role.RoleLastUsed.LastUsedDate
                        ELSE role.CreateDate
            IN  /\ response[i].complianceType = "COMPLIANT"
                       <=> AgeAtMost(CURRENT_TIME, from, Threshold)
                /\ (role.RoleLastUsed.t \in {"none", "empty"}
                    /\ ~AgeAtMost(CURRENT_TIME, role.CreateDate, Threshold))
                       => response[i].complianceType = "NON_COMPLIANT"

\* a run reported a never-used role created more than T days back
\* NON_COMPLIANT, and a role as old but used within T days COMPLIANT
C5_Witness ==
    /\ Returned
    /\ \E i, j \in 1..Len(response) :
          LET never == NthRecord(paginate, i)
              used == NthRecord(paginate, j)
          IN  /\ never.RoleLastUsed.t \in {"none", "empty"}
              /\ ~AgeAtMost(CURRENT_TIME, never.CreateDate, Threshold)
              /\ response[i].complianceType = "NON_COMPLIANT"
              /\ used.RoleLastUsed.t = "dict"
              /\ ~AgeAtMost(CURRENT_TIME, used.CreateDate, Threshold)
              /\ response[j].complianceType = "COMPLIANT"

\* what the first call was given under the key
Supplied == params_before[KEY]
Raised(message) == params_outcome = "raised" /\ params_message = message

\* C6 as stated: the first call on a string fails exactly when the string is
\* not a non-negative integer: with the "must be a integer" message when it
\* does not parse, with the "greater than or equal to 0" message when it
\* parses to a negative integer.
C6_AsStated ==
    (calls = 1 /\ Supplied.t = "str")
        => LET parsed == IntOfStr(Supplied.s)
           IN  /\ ~parsed.ok => Raised(MSG_NOT_INTEGER)
               /\ (parsed.ok /\ parsed.n < 0) => Raised(MSG_NEGATIVE)
               /\ (parsed.ok /\ parsed.n >= 0) => params_outcome = "returned"

\* C6 amended: the first call on a string fails exactly when the string is
\* not empty and is not a non-negative integer, with the message of its
\* case; the empty string counts as unset and is accepted.
C6_NonEmptyRejected ==
    (calls = 1 /\ Supplied.t = "str")
        => LET parsed == IntOfStr(Supplied.s)
           IN  /\ (Supplied.s # <<>> /\ ~parsed.ok) => Raised(MSG_NOT_INTEGER)
               /\ (parsed.ok /\ parsed.n < 0) => Raised(MSG_NEGATIVE)
               /\ (Supplied.s = <<>> \/ (parsed.ok /\ parsed.n >= 0))
                      => params_outcome = "returned"

\* "-10" as in the test of scenario 2 was rejected as negative
C6_Witness ==
    /\ calls = 1
    /\ Supplied = StrVal(<<"-", "1", "0">>)
    /\ Raised(MSG_NEGATIVE)

\* C7: the first call on a mapping without the key, or with the empty string
\* under it, returns with DaysBeforeUnused = 90.
C7_DefaultApplied ==
    (calls = 1 /\ (Supplied = None \/ Supplied = StrVal(<<>>)))
        => /\ params_outcome = "returned"
           /\ rule_parameters[KEY] = IntVal(90)

\* the empty string was validated and came out as 90
C7_Witness ==
    /\ calls = 1
    /\ Supplied = StrVal(<<>>)
    /\ params_outcome = "returned"
    /\ rule_parameters[KEY] = IntVal(90)

\* C8: a run that returns, returns one evaluation per role record of all the
\* pages, the i-th for the i-th record in page order, each of resource type
\* AWS::IAM::Role.
C8_OnePerRole ==
    Returned =>
        /\ Len(response) = RoleCount(paginate)
        /\ \A i \in 1..Len(response) :
              /\ response[i].resourceId = NthRecord(paginate, i).RoleName
              /\ response[i].resourceType = "AWS::IAM::Role"

\* a run over two pages of one role each returned two evaluations
C8_Witness ==
    /\ Returned
    /\ Len(paginate) = 2
    /\ Len(paginate[1]) = 1 /\ Len(paginate[2]) = 1
    /\ Len(response) = 2
    /\ response[1].resourceId # response[2].resourceId

\* C9: after a call has returned or failed, the caller's mapping is what it
\* was before the call.
C9_InputUntouched ==
    calls >= 1 => rule_parameters = params_before

\* C10: a call on the mapping a call returned succeeds and returns the same
\* DaysBeforeUnused.
C10_Idempotent ==
    (calls >= 2 /\ outcome_before = "returned")
        => /\ params_outcome = "returned"
           /\ rule_parameters[KEY] = params_before[KEY]

====
